---- MODULE Spec2Model ----
\* Model of the account-parallel task orchestrator of NexusSDK
\* (handler.GameHandler: AddTask, RunTasks, runTaskWithRetry, refreshGameData)
\* and of the interval ticker that drives a Recurrent task; of the callers
\* that mutate the handler concurrently (AddTask, SetBaseURL); and of the
\* HTTP transport (httpclient.NewHTTPClient, DoRequest, GameHandler.Post).
EXTENDS Integers, Sequences, FiniteSets, TLC

\* ------------------------------------------------------------------ bounds
MaxAccounts == 2
MaxTasks == 2
MaxTicks == 3
MaxCallers == 2
MaxBody == 2

Units == 1..MaxAccounts
Positions == 1..MaxTasks

\* ------------------------------------------------------------------- state
VARIABLES
    Accounts,     \* handler.Accounts
    Tasks,        \* handler.Tasks
    rtPc,         \* RunTasks: "idle", "spawn" (account loop), "wait" (wg.Wait), "returned"
    rtIdx,        \* RunTasks: position of `range handler.Accounts`
    wg,           \* RunTasks: the WaitGroup counter
    tasksAtCall,  \* handler.Tasks as it was when RunTasks was invoked
    gPc,          \* goroutine: "none", "range", "iter", "run1", "refresh", "run2", "select", "done"
    gAccount,     \* goroutine: the account argument of the closure
    gTasks,       \* goroutine: the slice `range handler.Tasks` iterates
    gIdx,         \* goroutine: iteration number of the task loop
    seq,          \* goroutine: the retry-with-refresh sequence running (or last run)
    started,      \* per goroutine and list position: sequences started
    ended,        \* per goroutine and list position: sequences that have returned
    logged,       \* per goroutine: error records RunTasks has written with log.Printf
    tickC,        \* per goroutine: ticks buffered in ticker.C
    fired,        \* per goroutine: ticks the interval timer has fired
    dropped,      \* per goroutine: ticks discarded because ticker.C was full
    BaseURL,      \* handler.BaseURL
    mu,           \* handler.mu: 0 when unlocked, else the caller that holds it
    call,         \* per caller: the AddTask or SetBaseURL call it makes
    proxyConfig,  \* the types.Proxy value given to NewHTTPClient
    httpClient,   \* what NewHTTPClient returned: (client, error)
    response,     \* the HTTP exchange the transport produced for a POST
    doResult,     \* what HTTPClient.DoRequest returned for it
    postResult,   \* what GameHandler.Post returned for it
    callLog       \* the call made on the transport and what it did: requests, bodies, error

vars == <<Accounts, Tasks, rtPc, rtIdx, wg, tasksAtCall, gPc, gAccount, gTasks,
          gIdx, seq, started, ended, logged, tickC, fired, dropped, BaseURL, mu,
          call, proxyConfig, httpClient, response, doResult, postResult, callLog>>

hVars == <<Accounts, Tasks>>
rtVars == <<rtPc, rtIdx, wg, tasksAtCall>>
loopVars == <<gAccount, gTasks, gIdx>>
seqVars == <<seq, started, ended, logged>>
tickVars == <<tickC, fired, dropped>>
callVars == <<BaseURL, mu, call>>
clientVars == <<proxyConfig, httpClient, response, doResult, postResult, callLog>>
runVars == <<rtVars, gPc, loopVars, seqVars, tickVars>>

RECURSIVE Sum(_, _)
\* f[1] + ... + f[n]
Sum(f, n) == IF n = 0 THEN 0 ELSE f[n] + Sum(f, n - 1)

\* ------------------------------------------------------------------- tasks
NewOneTimeTask == [kind |-> "OneTime", Interval |-> 0]

NewRecurrentTask(interval) == [kind |-> "Recurrent", Interval |-> interval]

Intervals == {1}

\* intervals NewRecurrentTask accepts although no ticker can be started with them
NonPositiveIntervals == {-1, 0}

TaskValues == {NewOneTimeTask} \cup {NewRecurrentTask(d) : d \in Intervals}

\* the account loaded at position k of the account list
Account(k) == 100 + k

\* the zero value the closure parameter has before a goroutine is started
NoAccount == Account(0)

\* --------------------------------------------------- the retry sequence
\* state: the state of the execution state machine; runs, refreshes: calls of
\* task.Run and refreshGameData made; first, refresh, retry: their outcomes;
\* ret: the value runTaskWithRetry returned
NoSeq == [state |-> "PENDING", runs |-> 0, refreshes |-> 0, first |-> "none",
          refresh |-> "none", retry |-> "none", ret |-> "none"]

\* refreshGameData: ([]byte, error); a failed marshal, POST or read gives
\* (nil, err), a complete read gives (body, nil) with a non-nil body
refreshGameData(ok) ==
    IF ok THEN [body |-> "bytes", err |-> "nil"]
          ELSE [body |-> "nil", err |-> "error"]

\* `refreshErr, _ := refreshGameData(...)`: the name is bound to the FIRST
\* result of the call and the second is discarded
refreshErr(r) == r.body

\* value runTaskWithRetry returns, from the outcomes of its three calls
runTaskWithRetryResultPropagates(first, refresh, retry) ==
    IF retry = "fail" THEN "error" ELSE "nil"

runTaskWithRetryResult(first, refresh, retry) == "nil"

\* `if err := handler.runTaskWithRetry(account, t); err != nil { log.Printf(...) }`:
\* records written for the value runTaskWithRetry returned
LogRecords(err) == IF err # "nil" THEN 1 ELSE 0

\* state of the execution state machine a finished sequence is in
Terminal(first, retry) ==
    IF first = "ok" \/ retry = "ok" THEN "SUCCEEDED" ELSE "FAILED_SILENT"

\* ------------------------------------------------------ goroutine helpers
\* the value the closure receives for its `account` parameter
GoArgShared(accounts, i) == accounts[Len(accounts)]

GoArg(accounts, i) == accounts[i]

\* list position `range` visits at iteration k of a slice of length n
RangeIndexReversed(n, k) == n - k + 1

RangeIndex(n, k) == k

\* wg.Wait() unblocks
WaitDoneNoWait(counter) == TRUE

WaitDone(counter) == counter = 0

\* non-blocking send of the runtime timer on ticker.C (capacity 1)
SendTime(c) == IF c = 0 THEN [c |-> 1, dropped |-> 0] ELSE [c |-> c, dropped |-> 1]

\* receive from ticker.C
RecvKeeps(c) == c

Recv(c) == 0

Pos(g) == RangeIndex(Len(gTasks[g]), gIdx[g])

CurTask(g) == gTasks[g][Pos(g)]

InSeq(g) == gPc[g] \in {"run1", "refresh", "run2"}

\* the process has not been ended by a panic
Alive == rtPc # "crashed"

\* time.NewTicker(d) returns a ticker: `if d <= 0 { panic(...) }`
TickerStarts(d) == d > 0

\* the goroutine is inside the `for { select { ... } }` of a Recurrent task
InTickerLoop(g) ==
    /\ gPc[g] \in {"select", "run1", "refresh", "run2"}
    /\ CurTask(g).kind = "Recurrent"

\* ------------------------------------------- callers that mutate the handler
Callers == 1..MaxCallers

URLs == {"https://a.example", "https://b.example"}

\* a caller that has not called yet; op: "AddTask" or "SetBaseURL"; task, url:
\* the argument; old: the slice header `append` has loaded
NoCall == [pc |-> "idle", op |-> "none", task |-> NewOneTimeTask, url |-> "",
           old |-> <<>>]

\* mu.Lock() can take the mutex
MutexFreeAlways(m) == TRUE

MutexFree(m) == m = 0

\* number of positions of list that hold v
Count(list, v) == Cardinality({p \in 1..Len(list) : list[p] = v})

\* ------------------------------------------------------------ HTTP transport
Ips == {"", "10.0.0.1"}
Ports == {-1, 0, 1080}
Usernames == {"", "user"}
Passwords == {"", "secret"}
SocksTypes == {0, 4, 5, 6}
Timeouts == {-1, 0, 30}

\* types.Proxy
ProxyConfigs ==
    [Ip : Ips, Port : Ports, Username : Usernames, Password : Passwords,
     SocksType : SocksTypes, Timeout : Timeouts]

\* the zero value of types.Proxy
NoProxy == [Ip |-> "", Port |-> 0, Username |-> "", Password |-> "",
            SocksType |-> 0, Timeout |-> 0]

\* `timeout := 10 * time.Second`
DefaultTimeout == 10

\* seconds of http.Client.Timeout
TimeoutOfNoDefault(t) == t

TimeoutOf(t) == IF t > 0 THEN t ELSE DefaultTimeout

NilClient == [nil |-> TRUE, transport |-> "none", auth |-> FALSE, Timeout |-> 0]

\* &HTTPClient{client: &http.Client{Transport: transport, Timeout: timeout}}
Client(transport, auth, cfg) ==
    [nil |-> FALSE, transport |-> transport, auth |-> auth,
     Timeout |-> TimeoutOf(cfg.Timeout)]

\* NewHTTPClient has not been called
NotBuilt == [client |-> NilClient, err |-> "not called"]

\* `if proxyConfig.Ip != "" && proxyConfig.Port > 0`
HasAddressIpOnly(cfg) == cfg.Ip # ""

HasAddress(cfg) == cfg.Ip # "" /\ cfg.Port > 0

\* the SOCKS branch of NewHTTPClient; dialerOk: proxy.SOCKS5 returned no error
SocksClientAnyType(cfg, dialerOk) ==
    [client |-> Client("socks5", cfg.Username # "" /\ cfg.Password # "", cfg),
     err |-> "nil"]

SocksClient(cfg, dialerOk) ==
    IF cfg.SocksType = 5
      THEN IF dialerOk
             THEN [client |-> Client("socks5",
                                     cfg.Username # "" /\ cfg.Password # "", cfg),
                   err |-> "nil"]
             ELSE [client |-> NilClient, err |-> "failed to create SOCKS dialer"]
      ELSE IF cfg.SocksType = 4
             THEN [client |-> NilClient,
                   err |-> "SOCKS4 proxy is not supported in this implementation"]
             ELSE [client |-> NilClient, err |-> "invalid SOCKS type"]

\* NewHTTPClient(proxyConfig): (*HTTPClient, error)
NewHTTPClient(cfg, dialerOk) ==
    IF HasAddress(cfg)
      THEN SocksClient(cfg, dialerOk)
      ELSE [client |-> Client("direct", FALSE, cfg), err |-> "nil"]

\* ---------------------------------------------------------- HTTP exchange
Statuses == {199, 200, 204, 299, 300, 404, 500}

Bytes == {"a", "b"}

Bodies == UNION {[1..n -> Bytes] : n \in 0..MaxBody}

\* what the transport produces for one request. doErr: http.NewRequest or
\* client.Do failed and there is no response; Body: the bytes the server sent;
\* cut: how many of them can be read before the body stream fails
\* (cut = Len(Body): the body is read to its end)
Exchanges ==
    {[sent |-> TRUE, doErr |-> TRUE, StatusCode |-> 0, Body |-> <<>>, cut |-> 0]}
    \cup UNION {{[sent |-> TRUE, doErr |-> FALSE, StatusCode |-> st, Body |-> b,
                  cut |-> k] : st \in Statuses, k \in 0..Len(b)} : b \in Bodies}

NoResponse == [sent |-> FALSE, doErr |-> FALSE, StatusCode |-> 0, Body |-> <<>>,
               cut |-> 0]

NilError == [nil |-> TRUE, msg |-> <<>>]

\* errors.New(text)
errorsNew(text) == [nil |-> FALSE, msg |-> text]

NilBytes == [nil |-> TRUE, data |-> <<>>]

NilResp == [nil |-> TRUE, StatusCode |-> 0, Body |-> <<>>, cut |-> 0]

\* io.ReadAll(resp.Body): the bytes read and the error that stopped the read
ReadAll(body, cut) ==
    IF cut < Len(body)
      THEN [data |-> SubSeq(body, 1, cut), err |-> errorsNew(<<"read">>)]
      ELSE [data |-> body, err |-> NilError]

\* `resp.StatusCode < 200 || resp.StatusCode >= 300`
IsErrorStatusAbove200(st) == st <= 200 \/ st >= 300

IsErrorStatus(st) == st < 200 \/ st >= 300

\* HTTPClient.DoRequest: (*http.Response, error)
DoRequest(x) ==
    IF x.doErr
      THEN [resp |-> NilResp, err |-> errorsNew(<<"transport">>)]
      ELSE IF IsErrorStatus(x.StatusCode)
             THEN [resp |-> NilResp, err |-> errorsNew(ReadAll(x.Body, x.cut).data)]
             ELSE [resp |-> [nil |-> FALSE, StatusCode |-> x.StatusCode,
                             Body |-> x.Body, cut |-> x.cut],
                   err |-> NilError]

\* GameHandler.Post: ([]byte, error)
Post(x) ==
    LET d == DoRequest(x)
    IN IF ~d.err.nil
         THEN [body |-> NilBytes, err |-> d.err]
         ELSE LET r == ReadAll(d.resp.Body, d.resp.cut)
              IN IF ~r.err.nil
                   THEN [body |-> NilBytes, err |-> r.err]
                   ELSE [body |-> [nil |-> FALSE, data |-> r.data], err |-> NilError]

\* ------------------------------------------ the callers of the transport
\* response bodies the transport has opened for the exchange: one when there
\* is a response, none when http.NewRequest or client.Do failed
Opened(x) == IF x.doErr THEN 0 ELSE 1

\* Body.Close() calls of DoRequest: the deferred one of the error-status branch
DoRequestCloses(x) == IF ~x.doErr /\ IsErrorStatus(x.StatusCode) THEN 1 ELSE 0

\* Body.Close() calls of GameHandler.Post: the `defer` that follows the error
\* test of HttpClient.Post runs on both returns after it
PostClosesOnSuccessOnly(x) == IF Post(x).err.nil THEN 1 ELSE 0

PostCloses(x) == IF DoRequest(x).err.nil THEN 1 ELSE 0

\* refreshGameData with its failure points: json.Marshal, client.Post, io.ReadAll
RefreshExchange(marshalOk, x) ==
    IF ~marshalOk
      THEN [body |-> NilBytes, err |-> errorsNew(<<"marshal">>)]
      ELSE LET d == DoRequest(x)
           IN IF ~d.err.nil
                THEN [body |-> NilBytes, err |-> d.err]
                ELSE LET r == ReadAll(d.resp.Body, d.resp.cut)
                     IN IF ~r.err.nil
                          THEN [body |-> NilBytes, err |-> r.err]
                          ELSE [body |-> [nil |-> FALSE, data |-> r.data],
                                err |-> NilError]

\* Body.Close() calls of refreshGameData: its `defer` after the error test
RefreshCloses(marshalOk, x) ==
    IF marshalOk /\ DoRequest(x).err.nil THEN 1 ELSE 0

\* fmt.Errorf("failed to ...: %w", err)
Wrap(prefix, err) == errorsNew(<<prefix>> \o err.msg)

\* OneTimeTask.Run and RecurrentTask.Run: json.Marshal(payload), then
\* handler.Post(handler.GetBaseURL(), payloadBytes); the response is only printed
RunSwallowsPostError(kind, marshalOk, x) ==
    IF ~marshalOk THEN Wrap(kind, errorsNew(<<"marshal">>)) ELSE NilError

Run(kind, marshalOk, x) ==
    IF ~marshalOk
      THEN Wrap(kind, errorsNew(<<"marshal">>))
      ELSE IF ~Post(x).err.nil THEN Wrap(kind, Post(x).err) ELSE NilError

\* POST requests Run issues
RunPosts(marshalOk) == IF marshalOk THEN 1 ELSE 0

NoCallLog == [fn |-> "none", marshalOk |-> TRUE, posts |-> 0, url |-> "",
              opened |-> 0, closed |-> 0, err |-> NilError]

NoDoResult == [resp |-> NilResp, err |-> NilError]

NoPostResult == [body |-> NilBytes, err |-> NilError]

\* -------------------------------------------------------------------- Init
\* RunTasks has not been invoked
RunIdle ==
    /\ rtPc = "idle"
    /\ rtIdx = 0
    /\ wg = 0
    /\ tasksAtCall = <<>>
    /\ gPc = [g \in Units |-> "none"]
    /\ gAccount = [g \in Units |-> NoAccount]
    /\ gTasks = [g \in Units |-> <<>>]
    /\ gIdx = [g \in Units |-> 0]
    /\ seq = [g \in Units |-> NoSeq]
    /\ started = [g \in Units |-> [p \in Positions |-> 0]]
    /\ ended = [g \in Units |-> [p \in Positions |-> 0]]
    /\ logged = [g \in Units |-> 0]
    /\ tickC = [g \in Units |-> 0]
    /\ fired = [g \in Units |-> 0]
    /\ dropped = [g \in Units |-> 0]

\* no caller has called AddTask or SetBaseURL
CallersIdle ==
    /\ BaseURL = ""
    /\ mu = 0
    /\ call = [c \in Callers |-> NoCall]

\* no request has been sent
NoExchange ==
    /\ response = NoResponse
    /\ doResult = NoDoResult
    /\ postResult = NoPostResult
    /\ callLog = NoCallLog

\* NewGameHandler has returned a handler (built with no proxy configured)
Init ==
    /\ \E n \in 0..MaxAccounts : Accounts = [k \in 1..n |-> Account(k)]
    /\ Tasks = <<>>
    /\ RunIdle
    /\ CallersIdle
    /\ proxyConfig = NoProxy
    /\ httpClient = NewHTTPClient(NoProxy, TRUE)
    /\ NoExchange

\* a proxy configuration has been loaded and NewHTTPClient is about to be called
ClientInit ==
    /\ Accounts = <<>>
    /\ Tasks = <<>>
    /\ RunIdle
    /\ CallersIdle
    /\ proxyConfig \in ProxyConfigs
    /\ httpClient = NotBuilt
    /\ NoExchange

\* ----------------------------------------------------------------- AddTask
\* lock, append, unlock
AddTask(task) ==
    /\ Len(Tasks) < MaxTasks
    /\ Tasks' = Append(Tasks, task)
    /\ UNCHANGED <<Accounts, callVars, clientVars, rtVars, gPc, loopVars, seqVars, tickVars>>

\* ---------------------------------------------------------------- RunTasks
\* position of RunTasks after i iterations of `range handler.Accounts`: in
\* the loop, or past it and blocked in wg.Wait()
AfterSpawn(i) == IF i < Len(Accounts) THEN "spawn" ELSE "wait"

RunTasksCall ==
    /\ rtPc = "idle"
    /\ rtPc' = AfterSpawn(0)
    /\ rtIdx' = 1
    /\ wg' = 0
    /\ tasksAtCall' = Tasks
    /\ UNCHANGED <<hVars, callVars, clientVars, gPc, loopVars, seqVars, tickVars>>

\* one iteration of `for _, account := range handler.Accounts`:
\* wg.Add(1); go func(account){...}(account)
RunTasksSpawn ==
    /\ rtPc = "spawn"
    /\ rtIdx <= Len(Accounts)
    /\ wg' = wg + 1
    /\ gPc' = [gPc EXCEPT ![rtIdx] = "range"]
    /\ gAccount' = [gAccount EXCEPT ![rtIdx] = GoArg(Accounts, rtIdx)]
    /\ rtIdx' = rtIdx + 1
    /\ rtPc' = AfterSpawn(rtIdx)
    /\ UNCHANGED <<hVars, callVars, clientVars, tasksAtCall, gTasks, gIdx, seqVars, tickVars>>

\* wg.Wait() returns and so does RunTasks
RunTasksReturn ==
    /\ rtPc = "wait"
    /\ WaitDone(wg)
    /\ rtPc' = "returned"
    /\ UNCHANGED <<hVars, callVars, clientVars, rtIdx, wg, tasksAtCall, gPc, loopVars, seqVars, tickVars>>

\* ------------------------------------------------- the account's goroutine
\* `range handler.Tasks` evaluates the slice once, when the loop is entered
GoRange(g) ==
    /\ Alive
    /\ gPc[g] = "range"
    /\ gTasks' = [gTasks EXCEPT ![g] = Tasks]
    /\ gIdx' = [gIdx EXCEPT ![g] = 1]
    /\ gPc' = [gPc EXCEPT ![g] = "iter"]
    /\ UNCHANGED <<hVars, callVars, clientVars, rtVars, gAccount, seqVars, tickVars>>

\* the task loop is over: the deferred wg.Done() runs
GoDone(g) ==
    /\ Alive
    /\ gPc[g] = "iter"
    /\ gIdx[g] > Len(gTasks[g])
    /\ gPc' = [gPc EXCEPT ![g] = "done"]
    /\ wg' = wg - 1
    /\ UNCHANGED <<hVars, callVars, clientVars, rtPc, rtIdx, tasksAtCall, loopVars, seqVars, tickVars>>

\* runTaskWithRetry is entered: the first task.Run is called
StartSeqShared(g) ==
    /\ seq' = [h \in Units |-> [NoSeq EXCEPT !.state = "RUNNING", !.runs = 1]]
    /\ started' = [started EXCEPT ![g][Pos(g)] = @ + 1]
    /\ gPc' = [gPc EXCEPT ![g] = "run1"]
    /\ UNCHANGED <<ended, logged>>

StartSeqCarries(g) ==
    /\ seq' = [seq EXCEPT ![g] = [@ EXCEPT !.state = "RUNNING", !.runs = @ + 1]]
    /\ started' = [started EXCEPT ![g][Pos(g)] = @ + 1]
    /\ gPc' = [gPc EXCEPT ![g] = "run1"]
    /\ UNCHANGED <<ended, logged>>

StartSeq(g) ==
    /\ seq' = [seq EXCEPT ![g] = [NoSeq EXCEPT !.state = "RUNNING", !.runs = 1]]
    /\ started' = [started EXCEPT ![g][Pos(g)] = @ + 1]
    /\ gPc' = [gPc EXCEPT ![g] = "run1"]
    /\ UNCHANGED <<ended, logged>>

\* runTaskWithRetry returns to the task loop (One-Time: next task) or to the
\* ticker loop (Recurrent: next select)
EndSeqStopsOnFailure(g, s) ==
    /\ seq' = [seq EXCEPT ![g] =
                 [s EXCEPT !.state = Terminal(s.first, s.retry),
                           !.ret = runTaskWithRetryResult(s.first, s.refresh, s.retry)]]
    /\ ended' = [ended EXCEPT ![g][Pos(g)] = @ + 1]
    /\ logged' = [logged EXCEPT ![g] =
                    @ + LogRecords(runTaskWithRetryResult(s.first, s.refresh, s.retry))]
    /\ IF CurTask(g).kind = "OneTime"
         THEN /\ gPc' = [gPc EXCEPT ![g] = "iter"]
              /\ gIdx' = [gIdx EXCEPT ![g] =
                            IF Terminal(s.first, s.retry) = "FAILED_SILENT"
                              THEN Len(gTasks[g]) + 1 ELSE @ + 1]
         ELSE /\ gPc' = [gPc EXCEPT ![g] = "select"]
              /\ gIdx' = gIdx

EndSeq(g, s) ==
    /\ seq' = [seq EXCEPT ![g] =
                 [s EXCEPT !.state = Terminal(s.first, s.retry),
                           !.ret = runTaskWithRetryResult(s.first, s.refresh, s.retry)]]
    /\ ended' = [ended EXCEPT ![g][Pos(g)] = @ + 1]
    /\ logged' = [logged EXCEPT ![g] =
                    @ + LogRecords(runTaskWithRetryResult(s.first, s.refresh, s.retry))]
    /\ IF CurTask(g).kind = "OneTime"
         THEN /\ gPc' = [gPc EXCEPT ![g] = "iter"]
              /\ gIdx' = [gIdx EXCEPT ![g] = @ + 1]
         ELSE /\ gPc' = [gPc EXCEPT ![g] = "select"]
              /\ gIdx' = gIdx

\* runTaskWithRetry goes on with its next call
NextCall(g, s, pc) ==
    /\ seq' = [seq EXCEPT ![g] = s]
    /\ gPc' = [gPc EXCEPT ![g] = pc]
    /\ UNCHANGED <<gIdx, ended, logged>>

\* case *tasks.OneTimeTask: the sequence runs inline
GoOneTime(g) ==
    /\ Alive
    /\ gPc[g] = "iter"
    /\ gIdx[g] <= Len(gTasks[g])
    /\ CurTask(g).kind = "OneTime"
    /\ StartSeq(g)
    /\ UNCHANGED <<hVars, callVars, clientVars, rtVars, loopVars, tickVars>>

\* case *tasks.RecurrentTask: the function literal is CALLED (no `go`):
\* time.NewTicker, then `for { select { case <-ticker.C: ... } }`
GoRecurrent(g) ==
    /\ Alive
    /\ gPc[g] = "iter"
    /\ gIdx[g] <= Len(gTasks[g])
    /\ CurTask(g).kind = "Recurrent"
    /\ TickerStarts(CurTask(g).Interval)
    /\ gPc' = [gPc EXCEPT ![g] = "select"]
    /\ tickC' = [tickC EXCEPT ![g] = 0]
    /\ UNCHANGED <<hVars, callVars, clientVars, rtVars, loopVars, seqVars, fired, dropped>>

\* time.NewTicker(task.Interval) panics on a non-positive interval; nothing
\* recovers the panic, so the process ends
GoTickerPanic(g) ==
    /\ Alive
    /\ gPc[g] = "iter"
    /\ gIdx[g] <= Len(gTasks[g])
    /\ CurTask(g).kind = "Recurrent"
    /\ ~TickerStarts(CurTask(g).Interval)
    /\ gPc' = [gPc EXCEPT ![g] = "panic"]
    /\ rtPc' = "crashed"
    /\ UNCHANGED <<hVars, callVars, clientVars, rtIdx, wg, tasksAtCall, loopVars,
                   seqVars, tickVars>>

\* the interval elapses: the runtime timer sends on ticker.C without blocking
Tick(g) ==
    /\ Alive
    /\ InTickerLoop(g)
    /\ Sum(fired, MaxAccounts) < MaxTicks
    /\ fired' = [fired EXCEPT ![g] = @ + 1]
    /\ tickC' = [tickC EXCEPT ![g] = SendTime(@).c]
    /\ dropped' = [dropped EXCEPT ![g] = @ + SendTime(tickC[g]).dropped]
    /\ UNCHANGED <<hVars, callVars, clientVars, rtVars, gPc, loopVars, seqVars>>

\* case <-ticker.C: one tick is received and the sequence runs inline
GoTick(g) ==
    /\ Alive
    /\ gPc[g] = "select"
    /\ tickC[g] > 0
    /\ tickC' = [tickC EXCEPT ![g] = Recv(@)]
    /\ StartSeq(g)
    /\ UNCHANGED <<hVars, callVars, clientVars, rtVars, loopVars, fired, dropped>>

\* the first task.Run returns; on an error refreshGameData is called
Run1ReturnAlwaysRefreshes(g, ok) ==
    /\ Alive
    /\ gPc[g] = "run1"
    /\ NextCall(g, [seq[g] EXCEPT !.state = "REFRESHING",
                                  !.first = IF ok THEN "ok" ELSE "fail",
                                  !.refreshes = @ + 1], "refresh")
    /\ UNCHANGED <<hVars, callVars, clientVars, rtVars, gAccount, gTasks, started, tickVars>>

Run1Return(g, ok) ==
    /\ Alive
    /\ gPc[g] = "run1"
    /\ IF ok
         THEN EndSeq(g, [seq[g] EXCEPT !.first = "ok"])
         ELSE NextCall(g, [seq[g] EXCEPT !.state = "REFRESHING", !.first = "fail",
                                         !.refreshes = @ + 1], "refresh")
    /\ UNCHANGED <<hVars, callVars, clientVars, rtVars, gAccount, gTasks, started, tickVars>>

\* refreshGameData returns; `if refreshErr != nil { return nil }`, else
\* task.Run is called again
RefreshReturnApplies(g, ok) ==
    /\ Alive
    /\ gPc[g] = "refresh"
    /\ LET s == [seq[g] EXCEPT !.refresh = IF ok THEN "ok" ELSE "fail"]
       IN IF refreshErr(refreshGameData(ok)) # "nil"
            THEN EndSeq(g, s)
            ELSE NextCall(g, [s EXCEPT !.state = "RETRYING", !.runs = @ + 1], "run2")
    /\ gAccount' = [gAccount EXCEPT ![g] = IF ok THEN Account(g + MaxAccounts) ELSE @]
    /\ UNCHANGED <<hVars, callVars, clientVars, rtVars, gTasks, started, tickVars>>

RefreshReturn(g, ok) ==
    /\ Alive
    /\ gPc[g] = "refresh"
    /\ LET s == [seq[g] EXCEPT !.refresh = IF ok THEN "ok" ELSE "fail"]
       IN IF refreshErr(refreshGameData(ok)) # "nil"
            THEN EndSeq(g, s)
            ELSE NextCall(g, [s EXCEPT !.state = "RETRYING", !.runs = @ + 1], "run2")
    /\ UNCHANGED <<hVars, callVars, clientVars, rtVars, gAccount, gTasks, started, tickVars>>

\* the retry task.Run returns; `if retryErr != nil { return nil }`
Run2ReturnRetriesAgain(g, ok) ==
    /\ Alive
    /\ gPc[g] = "run2"
    /\ IF ok
         THEN EndSeq(g, [seq[g] EXCEPT !.retry = "ok"])
         ELSE NextCall(g, [seq[g] EXCEPT !.state = "REFRESHING", !.retry = "fail",
                                         !.refreshes = @ + 1], "refresh")
    /\ UNCHANGED <<hVars, callVars, clientVars, rtVars, gAccount, gTasks, started, tickVars>>

Run2Return(g, ok) ==
    /\ Alive
    /\ gPc[g] = "run2"
    /\ EndSeq(g, [seq[g] EXCEPT !.retry = IF ok THEN "ok" ELSE "fail"])
    /\ UNCHANGED <<hVars, callVars, clientVars, rtVars, gAccount, gTasks, started, tickVars>>

\* ----------------------------------------------------------- specification
GoStep(g) ==
    \/ GoRange(g)
    \/ GoDone(g)
    \/ GoOneTime(g)
    \/ GoRecurrent(g)
    \/ GoTick(g)
    \/ \E ok \in BOOLEAN : Run1Return(g, ok)
    \/ \E ok \in BOOLEAN : RefreshReturn(g, ok)
    \/ \E ok \in BOOLEAN : Run2Return(g, ok)

RunTasksStep == RunTasksSpawn \/ RunTasksReturn

\* the documented lifecycle: tasks are added, then RunTasks is invoked once
Setup(task) == rtPc = "idle" /\ AddTask(task)

Next ==
    \/ \E task \in TaskValues : Setup(task)
    \/ RunTasksCall
    \/ RunTasksSpawn
    \/ RunTasksReturn
    \/ \E g \in Units : GoRange(g)
    \/ \E g \in Units : GoDone(g)
    \/ \E g \in Units : GoOneTime(g)
    \/ \E g \in Units : GoRecurrent(g)
    \/ \E g \in Units : Tick(g)
    \/ \E g \in Units : GoTick(g)
    \/ \E g \in Units, ok \in BOOLEAN : Run1Return(g, ok)
    \/ \E g \in Units, ok \in BOOLEAN : RefreshReturn(g, ok)
    \/ \E g \in Units, ok \in BOOLEAN : Run2Return(g, ok)

Spec == Init /\ [][Next]_vars

\* every started goroutine, the RunTasks caller and the interval timer keep
\* being scheduled, and every call that was made returns
FairSpec ==
    /\ Spec
    /\ WF_vars(RunTasksStep)
    /\ \A g \in Units : WF_vars(GoStep(g))
    /\ \A g \in Units : WF_vars(Tick(g))

\* AddTask is also called while RunTasks runs (it takes no part in the lifecycle
\* above; the goroutines read handler.Tasks without the lock)
RaceNext == Next \/ \E task \in TaskValues : AddTask(task)

RaceSpec == Init /\ [][RaceNext]_vars

\* NewRecurrentTask takes any time.Duration: tasks with a non-positive
\* interval are added too
PanicNext ==
    \/ Next
    \/ \E d \in NonPositiveIntervals : Setup(NewRecurrentTask(d))
    \/ \E g \in Units : GoTickerPanic(g)

PanicSpec == Init /\ [][PanicNext]_vars

\* ------------------------------------- AddTask and SetBaseURL, step by step
\* a caller invokes handler.AddTask(task)
AddTaskCall(c, task) ==
    /\ call[c].pc = "idle"
    /\ call' = [call EXCEPT ![c] = [@ EXCEPT !.pc = "lock", !.op = "AddTask",
                                             !.task = task]]
    /\ UNCHANGED <<hVars, BaseURL, mu, runVars, clientVars>>

\* handler.mu.Lock()
AddTaskLock(c) ==
    /\ call[c].pc = "lock"
    /\ MutexFree(mu)
    /\ mu' = c
    /\ call' = [call EXCEPT ![c].pc = "load"]
    /\ UNCHANGED <<hVars, BaseURL, runVars, clientVars>>

\* append(handler.Tasks, task) loads the slice
AddTaskLoad(c) ==
    /\ call[c].pc = "load"
    /\ call' = [call EXCEPT ![c] = [@ EXCEPT !.pc = "store", !.old = Tasks]]
    /\ UNCHANGED <<hVars, BaseURL, mu, runVars, clientVars>>

\* handler.Tasks = <the slice loaded, with the task appended>
AddTaskStore(c) ==
    /\ call[c].pc = "store"
    /\ Tasks' = Append(call[c].old, call[c].task)
    /\ call' = [call EXCEPT ![c].pc = "unlock"]
    /\ UNCHANGED <<Accounts, BaseURL, mu, runVars, clientVars>>

\* the deferred handler.mu.Unlock()
AddTaskUnlock(c) ==
    /\ call[c].pc = "unlock"
    /\ mu' = 0
    /\ call' = [call EXCEPT ![c].pc = "done"]
    /\ UNCHANGED <<hVars, BaseURL, runVars, clientVars>>

\* handler.SetBaseURL(url): `handler.BaseURL = url`, handler.mu is not taken
SetBaseURL(c, url) ==
    /\ call[c].pc = "idle"
    /\ BaseURL' = url
    /\ call' = [call EXCEPT ![c] = [@ EXCEPT !.pc = "done", !.op = "SetBaseURL",
                                             !.url = url]]
    /\ UNCHANGED <<hVars, mu, runVars, clientVars>>

MutNext ==
    \/ \E c \in Callers, task \in TaskValues : AddTaskCall(c, task)
    \/ \E c \in Callers : AddTaskLock(c)
    \/ \E c \in Callers : AddTaskLoad(c)
    \/ \E c \in Callers : AddTaskStore(c)
    \/ \E c \in Callers : AddTaskUnlock(c)
    \/ \E c \in Callers, url \in URLs : SetBaseURL(c, url)

\* the callers of AddTask and SetBaseURL run concurrently on one handler
MutSpec == Init /\ [][MutNext]_vars

\* ------------------------------------------------- the transport, applied
\* NewHTTPClient(proxyConfig) is called
NewHTTPClientCall(dialerOk) ==
    /\ httpClient = NotBuilt
    /\ httpClient' = NewHTTPClient(proxyConfig, dialerOk)
    /\ UNCHANGED <<hVars, callVars, runVars, proxyConfig, response, doResult,
                   postResult, callLog>>

\* handler.Post(url, payload) is called on the client built and the transport
\* produces the exchange x
PostCall(x) ==
    /\ ~httpClient.client.nil
    /\ ~response.sent
    /\ callLog.fn = "none"
    /\ response' = x
    /\ doResult' = DoRequest(x)
    /\ postResult' = Post(x)
    /\ callLog' = [NoCallLog EXCEPT !.fn = "Post", !.posts = 1,
                                    !.opened = Opened(x),
                                    !.closed = DoRequestCloses(x) + PostCloses(x),
                                    !.err = Post(x).err]
    /\ UNCHANGED <<hVars, callVars, runVars, proxyConfig, httpClient>>

ClientNext ==
    \/ \E dialerOk \in BOOLEAN : NewHTTPClientCall(dialerOk)
    \/ \E x \in Exchanges : PostCall(x)

ClientSpec == ClientInit /\ [][ClientNext]_vars

\* ------------------------------------ the transport's callers, applied
\* a handler built with no proxy, with some base URL set
CallInit ==
    /\ Accounts = <<>>
    /\ Tasks = <<>>
    /\ RunIdle
    /\ BaseURL \in URLs \cup {""}
    /\ mu = 0
    /\ call = [c \in Callers |-> NoCall]
    /\ proxyConfig = NoProxy
    /\ httpClient = NewHTTPClient(NoProxy, TRUE)
    /\ NoExchange

\* refreshGameData(handler.HttpClient, ...) is called; the transport produces
\* the exchange x if the request body was marshalled
RefreshCall(marshalOk, x) ==
    /\ ~httpClient.client.nil
    /\ callLog.fn = "none"
    /\ response' = IF marshalOk THEN x ELSE response
    /\ doResult' = IF marshalOk THEN DoRequest(x) ELSE doResult
    /\ callLog' = [NoCallLog EXCEPT !.fn = "refreshGameData",
                                    !.marshalOk = marshalOk,
                                    !.posts = IF marshalOk THEN 1 ELSE 0,
                                    !.opened = IF marshalOk THEN Opened(x) ELSE 0,
                                    !.closed = IF marshalOk
                                                 THEN DoRequestCloses(x)
                                                      + RefreshCloses(marshalOk, x)
                                                 ELSE 0,
                                    !.err = RefreshExchange(marshalOk, x).err]
    /\ UNCHANGED <<hVars, callVars, runVars, proxyConfig, httpClient, postResult>>

\* task.Run(account, handler) is called; the transport produces the exchange
\* x if the payload was marshalled
RunCall(kind, marshalOk, x) ==
    /\ ~httpClient.client.nil
    /\ callLog.fn = "none"
    /\ response' = IF marshalOk THEN x ELSE response
    /\ doResult' = IF marshalOk THEN DoRequest(x) ELSE doResult
    /\ postResult' = IF marshalOk THEN Post(x) ELSE postResult
    /\ callLog' = [NoCallLog EXCEPT !.fn = "Run",
                                    !.marshalOk = marshalOk,
                                    !.posts = RunPosts(marshalOk),
                                    !.url = IF marshalOk THEN BaseURL ELSE "",
                                    !.opened = IF marshalOk THEN Opened(x) ELSE 0,
                                    !.closed = IF marshalOk
                                                 THEN DoRequestCloses(x) + PostCloses(x)
                                                 ELSE 0,
                                    !.err = Run(kind, marshalOk, x)]
    /\ UNCHANGED <<hVars, callVars, runVars, proxyConfig, httpClient>>

TaskKinds == {"OneTime", "Recurrent"}

CallNext ==
    \/ \E x \in Exchanges : PostCall(x)
    \/ \E marshalOk \in BOOLEAN, x \in Exchanges : RefreshCall(marshalOk, x)
    \/ \E kind \in TaskKinds, marshalOk \in BOOLEAN, x \in Exchanges :
            RunCall(kind, marshalOk, x)

CallSpec == CallInit /\ [][CallNext]_vars

TypeOK ==
    /\ rtPc \in {"idle", "spawn", "wait", "returned", "crashed"}
    /\ wg \in 0..MaxAccounts
    /\ Len(Tasks) <= MaxTasks
    /\ \A g \in Units :
         /\ gPc[g] \in {"none", "range", "iter", "run1", "refresh", "run2", "select", "done",
                      "panic"}
         /\ tickC[g] \in 0..1
         /\ fired[g] \in 0..MaxTicks
         /\ \A p \in Positions : ended[g][p] <= started[g][p]

\* ------------------------------------------------------------------ claims
Spawned == {g \in Units : gPc[g] # "none"}

SeqOver(g) == seq[g].ret # "none"

IsOneTime(list, p) == p <= Len(list) /\ list[p].kind = "OneTime"

\* the sequence of list position p has run to a terminal state for unit g
SeqTerminal(g, p) == started[g][p] >= 1 /\ ended[g][p] = started[g][p]

\* the task loop of unit g has taken up the task at list position p
Dispatched(g, p) ==
    /\ gPc[g] \notin {"none", "range"}
    /\ \/ gIdx[g] > p
       \/ gIdx[g] = p /\ gPc[g] # "iter"

\* C1: in a sequence whose first Run failed and whose Refresh succeeded,
\* Task.Run was invoked exactly twice and Refresh exactly once.
C1_RetryAfterRefresh ==
    \A g \in Units :
        (SeqOver(g) /\ seq[g].first = "fail" /\ seq[g].refresh = "ok")
            => (seq[g].runs = 2 /\ seq[g].refreshes = 1)

\* C2: in a sequence whose first Run failed and whose Refresh failed too,
\* there is no retry: Task.Run was invoked exactly once.
C2_NoRetryAfterFailedRefresh ==
    \A g \in Units :
        (seq[g].first = "fail" /\ seq[g].refresh = "fail") => seq[g].runs = 1

\* the ticker loop `for { select { ... } }` has no break and no return: a unit
\* of work that has entered it stays in it, however many ticks are modelled
TickerLoopNeverExits ==
    [][\A g \in Units : InTickerLoop(g) => InTickerLoop(g)']_vars

\* C3: once called, RunTasks eventually returns (every call of Run and
\* Refresh returning), also with Recurrent tasks in the list.
C3_RunTasksReturns == (rtPc # "idle") ~> (rtPc = "returned")

\* C4: a task that comes after a Recurrent task in the list of an account's
\* unit of work is eventually taken up by that unit.
C4_TasksAfterRecurrentStart ==
    \A g \in Units : \A p \in Positions :
        (InTickerLoop(g) /\ Pos(g) < p /\ p <= Len(gTasks[g])) ~> Dispatched(g, p)

C6_JoinSafety ==
    rtPc = "returned" =>
        \A a \in 1..Len(Accounts) :
            /\ ~InSeq(a)
            /\ \A p \in 1..Len(tasksAtCall) :
                 IsOneTime(tasksAtCall, p) =>
                     /\ SeqTerminal(a, p)
                     /\ seq[a].state \in {"SUCCEEDED", "FAILED_SILENT"}

C6_Witness ==
    /\ rtPc = "returned"
    /\ Len(Accounts) >= 2
    /\ Len(tasksAtCall) >= 2
    /\ \E a \in 1..Len(Accounts) : seq[a].state = "FAILED_SILENT"

\* C7: once RunTasks is called, every account gets exactly one sequence for
\* every One-Time task of the list: eventually one, and never more than one.
C7_ExactlyOneSequence ==
    /\ [](\A g \in Units : \A p \in Positions :
              IsOneTime(gTasks[g], p) => started[g][p] <= 1)
    /\ (rtPc # "idle") ~>
           (\A a \in 1..Len(Accounts) : \A p \in Positions :
                IsOneTime(tasksAtCall, p) => started[a][p] = 1)

\* C8: for one account, the first Run of the One-Time task at position j
\* starts only after the sequence of every One-Time task at a position
\* i < j has reached a terminal state.
C8_OneTimeOrder ==
    \A g \in Units : \A i \in Positions : \A j \in Positions :
        (/\ i < j
         /\ IsOneTime(gTasks[g], i)
         /\ IsOneTime(gTasks[g], j)
         /\ started[g][j] > 0)
            => SeqTerminal(g, i)

C8_Witness ==
    \E g \in Units :
        /\ IsOneTime(gTasks[g], 1)
        /\ IsOneTime(gTasks[g], 2)
        /\ gPc[g] = "run2"
        /\ Pos(g) = 2

C10_OneUnitPerAccount ==
    /\ rtPc = "idle" => Spawned = {}
    /\ Cardinality(Spawned) <= Len(Accounts)
    /\ rtPc \in {"wait", "returned"} =>
         /\ Cardinality(Spawned) = Len(Accounts)
         /\ \A k \in 1..Len(Accounts) :
              Cardinality({g \in Spawned : gAccount[g] = Accounts[k]}) = 1

C10_Witness ==
    /\ rtPc = "returned"
    /\ Len(Accounts) >= 2
    /\ Len(tasksAtCall) >= 1

\* what belongs to the unit of work of one account
UnitState(g) ==
    <<gPc[g], gAccount[g], gTasks[g], gIdx[g], seq[g], started[g], ended[g],
      tickC[g], dropped[g]>>

\* the outcomes the calls of g's current sequence have had
Outcomes(g) == <<seq[g].first, seq[g].refresh, seq[g].retry>>

\* the Run and Refresh invocations g's current sequence has made
Invocations(g) == <<seq[g].runs, seq[g].refreshes>>

\* C11: accounts are isolated. A step in which a call of one account's
\* sequence returns (with either outcome) changes nothing of any other
\* account's unit of work and nothing the units share (the task list, the
\* account list, the base URL); and the Run and Refresh invocations an
\* account's sequence has made depend on that account's own outcomes alone:
\* two accounts with equal outcomes have made equal invocations, whatever
\* the outcomes of the others.
C11_AccountsIsolated ==
    /\ [](\A g \in Units : \A h \in Units :
            (gPc[g] # "none" /\ gPc[h] # "none" /\ Outcomes(g) = Outcomes(h)
             /\ (InSeq(g) <=> InSeq(h)))
                => Invocations(g) = Invocations(h))
    /\ [][\A g \in Units :
            (InSeq(g) /\ UnitState(g)' # UnitState(g)) =>
                /\ \A h \in Units \ {g} : UnitState(h)' = UnitState(h)
                /\ UNCHANGED <<Accounts, Tasks, BaseURL>>]_vars

\* one account's sequence has failed at both Runs while another account's
\* sequence at the same list position succeeded at its first Run
C11_Witness ==
    \E g \in Units : \E h \in Units :
        /\ g # h
        /\ Pos(g) = Pos(h)
        /\ gPc[g] = "select" /\ gPc[h] = "select"
        /\ seq[g].first = "fail" /\ seq[g].retry = "fail" /\ seq[g].runs = 2
        /\ seq[h].first = "ok" /\ seq[h].runs = 1 /\ seq[h].refreshes = 0

\* the caller's append has been stored into handler.Tasks
Stored(c) == call[c].op = "AddTask" /\ call[c].pc \in {"unlock", "done"}

\* C12: under every interleaving of the concurrent AddTask calls, the list
\* holds exactly the tasks whose append has been stored: its length is the
\* number of those calls and each task value occurs as many times as it was
\* added (no lost update); when all M calls are over the length is M more
\* than before the first.
C12_NoLostUpdate ==
    /\ Len(Tasks) = Cardinality({c \in Callers : Stored(c)})
    /\ \A v \in TaskValues :
         Count(Tasks, v) = Cardinality({c \in Callers : Stored(c) /\ call[c].task = v})

\* every caller has added a task and all the calls have returned
C12_Witness ==
    /\ \A c \in Callers : call[c].op = "AddTask" /\ call[c].pc = "done"
    /\ Len(Tasks) = MaxCallers
    /\ \E v \in TaskValues : Count(Tasks, v) = 1

\* C13 as stated: every step that writes handler.BaseURL or handler.Tasks is
\* taken while handler.mu is held.
C13_WritesHoldLock ==
    [][(BaseURL' # BaseURL \/ Tasks' # Tasks) => (mu # 0 /\ mu' = mu)]_vars

\* NewHTTPClient has returned
Built == httpClient # NotBuilt

\* C14 as stated: whatever the other fields are, SOCKS version 4 gives the
\* unsupported-proxy error and a version other than 4 and 5 gives the
\* invalid-proxy-type error, with no client.
C14_SocksTypeRejected ==
    Built =>
        /\ proxyConfig.SocksType = 4 =>
             /\ httpClient.err = "SOCKS4 proxy is not supported in this implementation"
             /\ httpClient.client.nil
        /\ proxyConfig.SocksType \notin {4, 5} =>
             /\ httpClient.err = "invalid SOCKS type"
             /\ httpClient.client.nil

\* C14 amended: the same, for the proxy configs that have an address (Ip is
\* non-empty and Port > 0), whatever the credentials and the timeout are.
C14_SocksTypeRejectedWithAddress ==
    (Built /\ proxyConfig.Ip # "" /\ proxyConfig.Port > 0) =>
        /\ proxyConfig.SocksType = 4 =>
             /\ httpClient.err = "SOCKS4 proxy is not supported in this implementation"
             /\ httpClient.client.nil
        /\ proxyConfig.SocksType \notin {4, 5} =>
             /\ httpClient.err = "invalid SOCKS type"
             /\ httpClient.client.nil

\* SOCKS version 4 with an address and credentials has been refused
C14_Witness ==
    /\ Built
    /\ proxyConfig.Ip # "" /\ proxyConfig.Port > 0
    /\ proxyConfig.SocksType = 4
    /\ proxyConfig.Username # "" /\ proxyConfig.Password # ""
    /\ httpClient.client.nil
    /\ httpClient.err = "SOCKS4 proxy is not supported in this implementation"

C16_StatusMapping ==
    (response.sent /\ ~response.doErr) =>
        IF response.StatusCode >= 200 /\ response.StatusCode < 300
          THEN /\ doResult.err.nil
               /\ ~doResult.resp.nil
               /\ postResult.err.nil
               /\ ~postResult.body.nil
               /\ postResult.body.data = response.Body
          ELSE /\ ~doResult.err.nil
               /\ doResult.err.msg = response.Body
               /\ doResult.resp.nil
               /\ postResult.err = doResult.err
               /\ postResult.body.nil

\* C16 amended: the same, for the responses whose body is read to its end.
C16_StatusMappingBodyRead ==
    (response.sent /\ ~response.doErr /\ response.cut = Len(response.Body)) =>
        IF response.StatusCode >= 200 /\ response.StatusCode < 300
          THEN /\ doResult.err.nil
               /\ ~doResult.resp.nil
               /\ postResult.err.nil
               /\ ~postResult.body.nil
               /\ postResult.body.data = response.Body
          ELSE /\ ~doResult.err.nil
               /\ doResult.err.msg = response.Body
               /\ doResult.resp.nil
               /\ postResult.err = doResult.err
               /\ postResult.body.nil

\* a 404 with a non-empty body was turned into an error carrying that body
C16_Witness ==
    /\ response.sent /\ ~response.doErr
    /\ response.StatusCode = 404
    /\ response.Body # <<>>
    /\ response.cut = Len(response.Body)
    /\ doResult.err.msg = response.Body
    /\ postResult.body.nil

FreshSeq == [NoSeq EXCEPT !.state = "RUNNING", !.runs = 1]

\* C18: a Recurrent ticker loop is never left, whatever the outcomes of its
\* sequences; a tick waiting in the channel can always be consumed when the
\* loop is back at its select; and the step that consumes it takes the tick
\* out of the channel and starts a sequence that carries nothing over from
\* the earlier ones: one Run called, no refresh, no outcome yet.
C18_TickerLoopStateless ==
    /\ [](\A g \in Units :
            (InTickerLoop(g) /\ gPc[g] = "select" /\ tickC[g] > 0)
                => ENABLED GoTick(g))
    /\ [][\A g \in Units :
            InTickerLoop(g) =>
                /\ InTickerLoop(g)'
                /\ (gPc[g] = "select" /\ gPc'[g] # "select") =>
                     /\ gPc'[g] = "run1"
                     /\ seq'[g] = FreshSeq
                     /\ tickC'[g] = 0
                     /\ started'[g][Pos(g)] = started[g][Pos(g)] + 1]_vars

\* the second tick of a loop was consumed after the first tick's sequence had
\* returned, and its sequence has started afresh
C18_Witness ==
    \E g \in Units :
        /\ InTickerLoop(g)
        /\ gPc[g] = "run1"
        /\ started[g][Pos(g)] = 2
        /\ ended[g][Pos(g)] = 1
        /\ seq[g] = FreshSeq

\* C19: Refresh is recovery only. A sequence whose first Run succeeded is
\* over with one Run and no Refresh; a Refresh has been called only in a
\* sequence whose first Run failed; and the step that calls Refresh is the
\* return of a failed first Run of the same account and task.
C19_RefreshOnlyAsRecovery ==
    /\ [](\A g \in Units :
            /\ seq[g].first = "ok" =>
                 /\ ~InSeq(g)
                 /\ seq[g].runs = 1
                 /\ seq[g].refreshes = 0
                 /\ seq[g].refresh = "none"
            /\ (seq[g].refreshes > 0 \/ gPc[g] = "refresh") => seq[g].first = "fail")
    /\ [][\A g \in Units :
            seq'[g].refreshes > seq[g].refreshes =>
                /\ gPc[g] = "run1"
                /\ gPc'[g] = "refresh"
                /\ seq[g].first = "none"
                /\ seq'[g].first = "fail"
                /\ seq'[g].refreshes = 1
                /\ gAccount'[g] = gAccount[g]
                /\ CurTask(g)' = CurTask(g)]_vars

\* one account is inside Refresh after its first Run failed, while another
\* account's sequence is over after a successful first Run
C19_Witness ==
    \E g \in Units : \E h \in Units :
        /\ gPc[g] = "refresh"
        /\ seq[g].first = "fail" /\ seq[g].runs = 1 /\ seq[g].refreshes = 1
        /\ SeqOver(h)
        /\ seq[h].first = "ok" /\ seq[h].runs = 1 /\ seq[h].refreshes = 0

\* calls a sequence has made
Calls(g) == seq[g].runs + seq[g].refreshes

\* C20: a sequence makes at most two Runs and at most one Refresh, and it
\* terminates: every return of one of its calls either ends the sequence in
\* a terminal state or makes exactly one more call, so that no sequence goes
\* on after its third call, whatever the outcomes are.
C20_SequenceBounded ==
    /\ [](\A g \in Units :
            /\ seq[g].runs <= 2
            /\ seq[g].refreshes <= 1
            /\ (SeqOver(g) /\ ~InSeq(g)) =>
                 seq[g].state \in {"SUCCEEDED", "FAILED_SILENT"})
    /\ [][\A g \in Units :
            (InSeq(g) /\ seq'[g] # seq[g]) =>
                \/ ~InSeq(g)' /\ SeqOver(g)' /\ Calls(g)' = Calls(g)
                \/ InSeq(g)' /\ Calls(g)' = Calls(g) + 1]_vars

\* the sequence of a One-Time task is over after two failed Runs and one
\* Refresh, and the task loop goes on
C20_Witness ==
    \E g \in Units :
        /\ SeqOver(g)
        /\ ~InSeq(g)
        /\ seq[g].runs = 2
        /\ seq[g].refreshes = 1
        /\ seq[g].retry = "fail"
        /\ gPc[g] = "iter"

\* C21: with AddTask called while RunTasks runs, every account's unit of
\* work iterates the task list as it was when RunTasks was invoked (so all
\* the units of one run iterate the same list, and none sees a task added
\* after the run started).
C21_TaskListFrozen ==
    \A g \in Units :
        gPc[g] \notin {"none", "range"} => gTasks[g] = tasksAtCall

\* C22: when the sequence of a One-Time task has ended in FAILED_SILENT, the
\* account's unit of work has moved on by exactly one task: the task that
\* failed is the one just before the loop index, no task before the index
\* was skipped, the next step of the task loop can be taken, and the unit is
\* done only when the list is exhausted.
C22_FailureDoesNotStopTasks ==
    \A g \in Units :
        (seq[g].state = "FAILED_SILENT" /\ gPc[g] \in {"iter", "done"}) =>
            /\ gIdx[g] >= 2
            /\ IsOneTime(gTasks[g], RangeIndex(Len(gTasks[g]), gIdx[g] - 1))
            /\ \A k \in 1..(gIdx[g] - 1) :
                 /\ k <= Len(gTasks[g])
                 /\ started[g][RangeIndex(Len(gTasks[g]), k)] = 1
                 /\ ended[g][RangeIndex(Len(gTasks[g]), k)] = 1
            /\ gPc[g] = "iter" =>
                 ENABLED (GoOneTime(g) \/ GoRecurrent(g) \/ GoDone(g))
            /\ gPc[g] = "done" => gIdx[g] = Len(gTasks[g]) + 1

\* the first of two One-Time tasks has failed at both Runs for an account,
\* and the account's task loop stands at the second task
C22_Witness ==
    \E g \in Units :
        /\ Len(gTasks[g]) = 2
        /\ IsOneTime(gTasks[g], 1)
        /\ IsOneTime(gTasks[g], 2)
        /\ seq[g].state = "FAILED_SILENT"
        /\ seq[g].retry = "fail"
        /\ gPc[g] = "iter"
        /\ gIdx[g] = 2
        /\ ENABLED GoOneTime(g)

\* the error-logging branches of RunTasks are never taken
LogBranchesDead == \A g \in Units : logged[g] = 0

\* C23: whenever a sequence has ended in FAILED_SILENT, RunTasks has written
\* a log record for that account, and no error was propagated.
C23_FailureLogged ==
    \A g \in Units :
        seq[g].state = "FAILED_SILENT" =>
            /\ logged[g] >= 1
            /\ seq[g].ret = "nil"

\* C24: after a call of the handler's Post or of refreshGameData has
\* returned, every response body the call opened has been closed: one body
\* is opened exactly when the transport produced a response, and then it was
\* closed exactly once, on success, on an error status and on a failed read
\* alike; a transport error or a failed marshal opens none.
C24_NoBodyLeak ==
    callLog.fn \in {"Post", "refreshGameData"} =>
        /\ callLog.closed = callLog.opened
        /\ callLog.opened = (IF response.sent /\ ~response.doErr THEN 1 ELSE 0)
        /\ callLog.posts = (IF response.sent THEN 1 ELSE 0)

\* Post got a 200 whose body could not be read to its end: it returned an
\* error, and the body was closed
C24_Witness ==
    /\ callLog.fn = "Post"
    /\ response.sent /\ ~response.doErr
    /\ response.StatusCode = 200
    /\ response.cut < Len(response.Body)
    /\ ~callLog.err.nil
    /\ callLog.opened = 1
    /\ callLog.closed = 1

\* C25: Run returns no error if and only if the payload was serialized and
\* the handler's Post returned no error, whatever the body of the response
\* is; the POST goes to the base URL the handler has at that time; and when
\* the serialization fails, Run issues no POST.
C25_RunResult ==
    callLog.fn = "Run" =>
        /\ callLog.err.nil <=> (callLog.marshalOk /\ response.sent /\ postResult.err.nil)
        /\ callLog.marshalOk =>
             /\ callLog.posts = 1
             /\ response.sent
             /\ callLog.url = BaseURL
             /\ postResult = Post(response)
        /\ ~callLog.marshalOk =>
             /\ callLog.posts = 0
             /\ ~response.sent
             /\ ~callLog.err.nil

\* Run returned no error for a 2xx response with a non-empty body, posted to
\* a base URL that was set
C25_Witness ==
    /\ callLog.fn = "Run"
    /\ callLog.err.nil
    /\ callLog.posts = 1
    /\ callLog.url # ""
    /\ response.StatusCode = 204
    /\ Len(response.Body) = MaxBody
    /\ postResult.body.data = response.Body

\* no step writes handler.Accounts
AccountsNeverWritten == [][Accounts' = Accounts]_vars

\* C26: the account list is the list that was loaded, whatever has run; the
\* account value a unit of work passes to Task.Run and to Refresh is the
\* entry of the list it was started for, at the first Run, during Refresh
\* and at the retry Run alike (the Refresh result is applied to nothing);
\* and the task list the unit iterates, so the task and payload of the retry
\* Run, is the one of the first Run.
C26_AccountsUntouched ==
    /\ Accounts = [k \in 1..Len(Accounts) |-> Account(k)]
    /\ \A g \in Units :
         gPc[g] # "none" =>
            /\ g <= Len(Accounts)
            /\ gAccount[g] = Accounts[g]
            /\ gAccount[g] = Account(g)
    /\ \A g \in Units :
         InSeq(g) =>
            /\ gTasks[g] = tasksAtCall
            /\ CurTask(g) = tasksAtCall[Pos(g)]

\* the second account's unit of work is inside the retry Run of a sequence,
\* after a Refresh, still holding the second entry of the account list
C26_Witness ==
    \E g \in Units :
        /\ g = 2
        /\ gPc[g] = "run2"
        /\ seq[g].refreshes = 1
        /\ seq[g].runs = 2
        /\ gAccount[g] = Accounts[2]

\* C27: every Recurrent task a unit of work of RunTasks reaches has an
\* interval > 0, and starting its ticker never fails.
C27_PositiveIntervals ==
    \A g \in Units :
        /\ gPc[g] # "panic"
        /\ (gPc[g] = "iter" /\ gIdx[g] <= Len(gTasks[g])
            /\ CurTask(g).kind = "Recurrent") => CurTask(g).Interval > 0

====
